---- MODULE Spec2Model ----
(***************************************************************************)
(* A model of photos.py, the static site generator for photos: the         *)
(* commands that write the site configuration (create-auto, create-blog,   *)
(* post, add-comment) and the build command (image resolution, the tag     *)
(* authorization walk, the assembly of blog and auto sections, the page    *)
(* registry and the render loop).                                          *)
(*                                                                         *)
(* Python strings are modelled as sequences of one-character strings, so   *)
(* that formatting, parsing, splitting and string comparison are computed  *)
(* as the code computes them.  A Python None of a string-valued name is    *)
(* the empty sequence where the code cannot produce an empty string, and   *)
(* an optional of another type is the empty set or a singleton.            *)
(* A datetime is a number of ticks; a calendar day has two ticks.          *)
(***************************************************************************)
EXTENDS Integers, Sequences, FiniteSets, TLC

(***************************************************************************)
(* Bounds of the model.                                                    *)
(***************************************************************************)
\* the configuration directory holds at most MaxDocs documents
\* (section configurations, post manifests and comments)
MaxDocs == 4
\* the post command is given the timestamps 9 .. 9 + MaxStamp
MaxStamp == 1
\* the user answers a prompt with at most MaxReplies lines
MaxReplies == 2

(***************************************************************************)
(* Python string operations.                                               *)
(***************************************************************************)
DigitChars == <<"0", "1", "2", "3", "4", "5", "6", "7", "8", "9">>

\* the characters of the model in code point order
CharOrder ==
    <<" ", "-", ".", "/">> \o DigitChars \o <<":", "A", "B", "_">> \o
    <<"a", "b", "c", "d", "e", "f", "g", "h", "i", "j", "k", "l", "m",
      "n", "o", "p", "q", "r", "s", "t", "u", "v", "w", "x", "y", "z">>

Ord(c) == CHOOSE i \in 1..Len(CharOrder) : CharOrder[i] = c

IsDigit(c) == \E i \in 1..10 : DigitChars[i] = c

DigitVal(c) == (CHOOSE i \in 1..10 : DigitChars[i] = c) - 1

IsAlpha(c) == Ord(c) >= Ord("A") /\ c # "_"

IsAlnum(c) == IsAlpha(c) \/ IsDigit(c)

Lower(c) == CASE c = "A" -> "a" [] c = "B" -> "b" [] OTHER -> c

\* str(n) of a natural number
RECURSIVE Str(_)
Str(n) == IF n < 10 THEN <<DigitChars[n + 1]>>
          ELSE Str(n \div 10) \o <<DigitChars[(n % 10) + 1]>>

\* int(s) of a numeric string
RECURSIVE ParseInt(_)
ParseInt(s) == IF Len(s) = 1 THEN DigitVal(s[1])
               ELSE 10 * ParseInt(SubSeq(s, 1, Len(s) - 1)) + DigitVal(s[Len(s)])

\* s.isnumeric()
IsNumeric(s) == s # <<>> /\ \A i \in 1..Len(s) : IsDigit(s[i])

\* c in s
Contains(s, c) == \E i \in 1..Len(s) : s[i] = c

FirstIndex(s, c) ==
    IF Contains(s, c)
    THEN CHOOSE i \in 1..Len(s) : s[i] = c /\ \A j \in 1..(i - 1) : s[j] # c
    ELSE 0

LastIndex(s, c) ==
    IF Contains(s, c)
    THEN CHOOSE i \in 1..Len(s) : s[i] = c /\ \A j \in (i + 1)..Len(s) : s[j] # c
    ELSE 0

\* s.rsplit(c, 1)[0]
RSplitFirst(s, c) ==
    IF Contains(s, c) THEN SubSeq(s, 1, LastIndex(s, c) - 1) ELSE s

\* s.split(c, 1)[0]
SplitFirst(s, c) ==
    IF Contains(s, c) THEN SubSeq(s, 1, FirstIndex(s, c) - 1) ELSE s

\* s.split(c)
RECURSIVE Split(_, _)
Split(s, c) ==
    IF Contains(s, c)
    THEN <<SubSeq(s, 1, FirstIndex(s, c) - 1)>>
         \o Split(SubSeq(s, FirstIndex(s, c) + 1, Len(s)), c)
    ELSE <<s>>

\* s.replace(a, b) for one-character a and b
Replace(s, a, b) == [i \in 1..Len(s) |-> IF s[i] = a THEN b ELSE s[i]]

\* s.startswith(p)
StartsWith(s, p) == Len(s) >= Len(p) /\ SubSeq(s, 1, Len(p)) = p

\* s < t for Python strings
RECURSIVE LexLess(_, _)
LexLess(s, t) ==
    IF s = <<>> THEN t # <<>>
    ELSE IF t = <<>> THEN FALSE
    ELSE IF Head(s) = Head(t) THEN LexLess(Tail(s), Tail(t))
    ELSE Ord(Head(s)) < Ord(Head(t))

\* sorted(S, key=lambda f: f.name) of a set of file names
RECURSIVE SortedNames(_)
SortedNames(S) ==
    IF S = {} THEN <<>>
    ELSE LET m == CHOOSE x \in S : \A y \in S \ {x} : LexLess(x, y)
         IN <<m>> \o SortedNames(S \ {m})

\* Path(name).stem
Stem(name) ==
    IF LastIndex(name, ".") > 1 THEN SubSeq(name, 1, LastIndex(name, ".") - 1)
    ELSE name

\* Python dicts are functions; d[k] = v, and d.pop(k, default)
Put(d, k, v) == [x \in DOMAIN d \cup {k} |-> IF x = k THEN v ELSE d[x]]

Get(d, k, default) == IF k \in DOMAIN d THEN d[k] ELSE default

Without(d, k) == [x \in DOMAIN d \ {k} |-> d[x]]

EmptyDict == [x \in {} |-> {}]

Range(s) == {s[i] : i \in DOMAIN s}


\* Python dicts whose iteration order the code uses (all_images, all_tags)
\* are sequences of <<key, value>> pairs in insertion order
Keys(od) == {od[i][1] : i \in DOMAIN od}

Lookup(od, k) == od[CHOOSE i \in DOMAIN od : od[i][1] = k][2]

Insert(od, k, v) ==
    IF k \in Keys(od)
    THEN [i \in DOMAIN od |-> IF od[i][1] = k THEN <<k, v>> ELSE od[i]]
    ELSE Append(od, <<k, v>>)

(***************************************************************************)
(* String literals of the program.                                         *)
(***************************************************************************)
HtmlSuffix == <<".", "h", "t", "m", "l">>

JsonSuffix == <<".", "j", "s", "o", "n">>

Commenting == <<"c", "o", "m", "m", "e", "n", "t", "i", "n", "g">>

ConfigJson == <<"c", "o", "n", "f", "i", "g">> \o JsonSuffix

BlogPrefix == <<"b", "l", "o", "g", "-">>

SectionPrefix == <<"s", "e", "c", "t", "i", "o", "n", "-">>

ReservedSlugs == {<<"i", "m", "a", "g", "e", "s">>, <<"t", "a", "g", "s">>}

(***************************************************************************)
(* Dates.  strftime("%Y-%m-%d") of a datetime, and the EXIF                *)
(* DateTimeOriginal text of a day ("2020:01:02 12:00:00").                 *)
(***************************************************************************)
TwoDigits(n) == IF n < 10 THEN <<"0">> \o Str(n) ELSE Str(n)

DateStr(day) == <<"2", "0", "2", "0", "-", "0", "1", "-">> \o TwoDigits(day)

Strftime(datetime) == DateStr((datetime \div 2) + 1)

ExifStr(day) ==
    Replace(DateStr(day), "-", ":") \o <<" ", "1", "2", ":", "0", "0", ":", "0", "0">>

(***************************************************************************)
(* The state.                                                              *)
(***************************************************************************)
VARIABLES
    \* the photo store (picpocket): image id -> image
    store,
    \* the site's configuration directory: "section-<slug>.json" -> section
    \* data, and "blog-<slug>" -> [config, posts: "<timestamp>.json" -> post]
    sectionFiles, blogDirs,
    \* db.sqlite3: tags (tag -> display) and images (image -> date)
    tagsTable, imagesTable,
    \* the image files of the build directory
    assets,
    \* the exit status of the last run of the program that ended
    status,
    \* the position of the running build command
    pc,
    \* the build's local names
    todo, path, queue, entries, previous, comments, dates,
    all_images, all_tags, tag_paths,
    pages, all_blog_pages, sections,
    \* the build's feeds (Page.render_feeds) and rendered pages (Page.render)
    feeds, rendered,
    \* history: tag -> number of authorization prompts since the store was
    \* created; image id -> number of file copies in this build; the
    \* "Unused comments" warnings of this build
    prompts, copies, warnings

persistent == <<store, sectionFiles, blogDirs, tagsTable, imagesTable, assets>>

section_locals == <<path, queue, entries, previous, comments, dates>>

image_locals == <<all_images, all_tags, tag_paths>>

page_locals == <<pages, all_blog_pages, sections, feeds, rendered>>

history == <<prompts, copies, warnings>>

vars == <<persistent, status, pc, todo, section_locals, image_locals,
          page_locals, history>>

(***************************************************************************)
(* process_image: image resolution and the tag authorization walk.         *)
(***************************************************************************)
\* the slug of a tag page
SlugChar(symbol) ==
    IF IsAlnum(symbol) THEN Lower(symbol)
    ELSE IF symbol = "/" THEN "_"
    ELSE IF symbol \in {".", "-"} THEN symbol
    ELSE "-"

TagSlug(tag) == [i \in 1..Len(tag) |-> SlugChar(tag[i])]

\* tag.rsplit("/", 1)[0] if "/" in tag else None
Parent(tag) == IF Contains(tag, "/") THEN RSplitFirst(tag, "/") ELSE <<>>

\* the prompt loop: input() is read until the line is "y" or "n"
RECURSIVE Answer(_)
Answer(lines) ==
    IF Head(lines) = "y" THEN TRUE
    ELSE IF Head(lines) = "n" THEN FALSE
    ELSE Answer(Tail(lines))

\* the lines a user may type at one prompt
ReplyLines ==
    {s \in UNION {[1..n -> {"y", "n", "?"}] : n \in 1..MaxReplies} :
        /\ s[Len(s)] \in {"y", "n"}
        /\ \A i \in 1..(Len(s) - 1) : s[i] = "?"}

\* the inner loop that registers an allowed tag and its ancestors
\* a registration of the allowed tag alone, without its ancestors
RegisterLeafOnly(c, tag, image_id) ==
    IF tag = <<>> THEN c
    ELSE IF tag \notin Keys(c.all_tags)
    THEN [c EXCEPT !.all_tags = Insert(@, tag, <<image_id>>),
                   !.tag_paths = Put(@, tag, TagSlug(tag))]
    ELSE [c EXCEPT !.all_tags =
                       Insert(@, tag, Append(Lookup(@, tag), image_id))]

RECURSIVE Register(_, _, _)
Register(c, tag, image_id) ==
    IF tag = <<>> THEN c
    ELSE Register(
            IF tag \notin Keys(c.all_tags)
            THEN [c EXCEPT !.all_tags = Insert(@, tag, <<image_id>>),
                           !.tag_paths = Put(@, tag, TagSlug(tag))]
            ELSE [c EXCEPT !.all_tags =
                               Insert(@, tag, Append(Lookup(@, tag), image_id))],
            Parent(tag), image_id)

\* a walk that does not insert the answer into the tags table
RECURSIVE WalkNoInsert(_, _, _, _)
WalkNoInsert(c, tag, image_id, replies) ==
    IF tag = <<>> THEN c
    ELSE LET row == tag \in DOMAIN c.tagsTable
             allowed == IF row THEN c.tagsTable[tag] ELSE Answer(replies[tag])
             c1 == IF row THEN c
                   ELSE [c EXCEPT !.prompts = Put(@, tag, Get(@, tag, 0) + 1)]
         IN IF allowed
            THEN Register([c1 EXCEPT !.tags = Append(@, Split(tag, "/"))],
                          tag, image_id)
            ELSE WalkNoInsert(c1, Parent(tag), image_id, replies)

\* a walk that gives up at the first denied path
WalkStopsAtDenial(c, tag, image_id, replies) ==
    IF tag = <<>> THEN c
    ELSE LET row == tag \in DOMAIN c.tagsTable
             allowed == IF row THEN c.tagsTable[tag] ELSE Answer(replies[tag])
             c1 == IF row THEN c
                   ELSE [c EXCEPT !.tagsTable = Put(@, tag, allowed),
                                  !.prompts = Put(@, tag, Get(@, tag, 0) + 1)]
         IN IF allowed
            THEN Register([c1 EXCEPT !.tags = Append(@, Split(tag, "/"))],
                          tag, image_id)
            ELSE c1

\* the walk of one raw tag from the full path toward the root
RECURSIVE Walk(_, _, _, _)
Walk(c, tag, image_id, replies) ==
    IF tag = <<>> THEN c
    ELSE LET row == tag \in DOMAIN c.tagsTable
             allowed == IF row THEN c.tagsTable[tag] ELSE Answer(replies[tag])
             c1 == IF row THEN c
                   ELSE [c EXCEPT !.tagsTable = Put(@, tag, allowed),
                                  !.prompts = Put(@, tag, Get(@, tag, 0) + 1)]
         IN IF allowed
            THEN Register([c1 EXCEPT !.tags = Append(@, Split(tag, "/"))],
                          tag, image_id)
            ELSE Walk(c1, Parent(tag), image_id, replies)

RECURSIVE WalkTags(_, _, _, _)
WalkTags(c, tags, image_id, replies) ==
    IF tags = <<>> THEN c
    ELSE WalkTags(Walk(c, Head(tags), image_id, replies), Tail(tags),
                  image_id, replies)

\* the effective date of an image
EffectiveDate(image, table) ==
    IF image.id \in DOMAIN table THEN table[image.id]
    ELSE IF "DateTimeOriginal" \in DOMAIN image.exif
    THEN Replace(SplitFirst(image.exif["DateTimeOriginal"], " "), ":", "-")
    ELSE Strftime(image.creation_date)

\* api.get_image(image_id): the image, or None
GetImage(photos, image_id) ==
    IF image_id \in DOMAIN photos THEN {photos[image_id]} ELSE {}

\* the two forms of process_image's argument
ById(image_id) == [image_id |-> image_id, image |-> {}]

ByImage(image) == [image_id |-> image.id, image |-> {image}]

\* the build context process_image reads and writes
Context ==
    [store |-> store, tagsTable |-> tagsTable, imagesTable |-> imagesTable,
     assets |-> assets, all_images |-> all_images, all_tags |-> all_tags,
     tag_paths |-> tag_paths, prompts |-> prompts, copies |-> copies,
     tags |-> <<>>, exit |-> FALSE, image_data |-> {}, post_images |-> <<>>]

\* a resolution that does not look in the cache
process_imageNoCache(c, id_or_image, replies) ==
    LET image_id == id_or_image.image_id
        found == IF id_or_image.image = {} THEN GetImage(c.store, image_id)
                 ELSE id_or_image.image
    IN  IF found = {} \/ \E image \in found : ~image.full_path
        THEN [c EXCEPT !.exit = TRUE, !.image_data = {}]
        ELSE LET image == CHOOSE image \in found : TRUE
                 c1 == IF image.id \in c.assets THEN c
                       ELSE [c EXCEPT !.assets = @ \cup {image.id},
                                      !.copies = Put(@, image.id,
                                                     Get(@, image.id, 0) + 1)]
                 c2 == WalkTags([c1 EXCEPT !.tags = <<>>], image.tags,
                                image_id, replies)
                 image_data ==
                     [id |-> image.id,
                      date |-> EffectiveDate(image, c.imagesTable),
                      datetime |-> image.creation_date,
                      file |-> image.id,
                      tags |-> c2.tags]
             IN [c2 EXCEPT !.all_images = Insert(@, image.id, image_data),
                           !.image_data = {image_data}]

process_image(c, id_or_image, replies) ==
    LET image_id == id_or_image.image_id
        found == IF id_or_image.image = {} THEN GetImage(c.store, image_id)
                 ELSE id_or_image.image
    IN  IF image_id \in Keys(c.all_images)
        THEN [c EXCEPT !.image_data = {Lookup(c.all_images, image_id)}]
        ELSE IF found = {} \/ \E image \in found : ~image.full_path
        THEN [c EXCEPT !.exit = TRUE, !.image_data = {}]
        ELSE LET image == CHOOSE image \in found : TRUE
                 c1 == IF image.id \in c.assets THEN c
                       ELSE [c EXCEPT !.assets = @ \cup {image.id},
                                      !.copies = Put(@, image.id,
                                                     Get(@, image.id, 0) + 1)]
                 c2 == WalkTags([c1 EXCEPT !.tags = <<>>], image.tags,
                                image_id, replies)
                 image_data ==
                     [id |-> image.id,
                      date |-> EffectiveDate(image, c.imagesTable),
                      datetime |-> image.creation_date,
                      file |-> image.id,
                      tags |-> c2.tags]
             IN [c2 EXCEPT !.all_images = Insert(@, image.id, image_data),
                           !.image_data = {image_data}]


(***************************************************************************)
(* The arguments the commands are run with.                                *)
(***************************************************************************)
TagAB == <<"A", "/", "b">>

TagABC == <<"A", "/", "b", "/", "c">>

TitleArgs == {<<"A", " ", "b">>}

\* --slug: None, or a slug
SlugArgs == {<<>>, <<"t", "a", "g", "s">>}

\* --creators, --min-rating, --all-tags, --no-tags: none of them, or one
Filter(creators, min_rating, tags_all, tags_no) ==
    [creators |-> creators, min_rating |-> min_rating,
     all_tags |-> tags_all, no_tags |-> tags_no]

FilterArgs ==
    {Filter(<<>>, {}, <<>>, <<>>), Filter(<<"alice">>, {}, <<>>, <<>>),
     Filter(<<>>, {3}, <<>>, <<>>), Filter(<<>>, {}, <<TagAB>>, <<>>),
     Filter(<<>>, {}, <<>>, <<TagAB>>)}

BlogArgs == {<<"a", "-", "b">>}

StampArgs == 9..(9 + MaxStamp)

PostSlugArgs == {<<>>, <<"p">>}

ImageArgs == {<<2, 1>>, <<4>>, <<9>>}

CommentSlugArgs == {<<"p">>, DateStr(1)}

Users == {"u"}

(***************************************************************************)
(* The commands that write the configuration.  A command is one run of the *)
(* program: it starts when no other run is in progress and ends with what  *)
(* it printed.                                                             *)
(***************************************************************************)
RECURSIVE Sum(_, _)
Sum(f, S) == IF S = {} THEN 0
             ELSE LET x == CHOOSE x \in S : TRUE IN f[x] + Sum(f, S \ {x})

NumComments(cm) == Sum([k \in DOMAIN cm |-> Len(cm[k])], DOMAIN cm)

\* the number of documents of the configuration directory
Docs ==
    Sum([n \in DOMAIN sectionFiles |-> 1 + NumComments(sectionFiles[n].comments)],
        DOMAIN sectionFiles)
    + Sum([n \in DOMAIN blogDirs |->
              1 + NumComments(blogDirs[n].config.comments)
                + Cardinality(DOMAIN blogDirs[n].posts)],
          DOMAIN blogDirs)

\* the slug derived from a section title
RECURSIVE SlugParts(_, _)
SlugParts(parts, title) ==
    IF title = <<>> THEN parts
    ELSE LET symbol == Head(title)
         IN SlugParts(
                IF IsAlpha(symbol) THEN Append(parts, Lower(symbol))
                ELSE IF parts # <<>> /\ parts[Len(parts)] # "-"
                THEN Append(parts, "-")
                ELSE parts,
                Tail(title))

Slugify(title) == SlugParts(<<>>, title)

build_locals == <<todo, section_locals, image_locals, page_locals, copies, warnings>>

CreateAuto(title, slug_arg, creators, min_rating, tags_all, tags_no) ==
    LET slug == IF slug_arg = <<>> THEN Slugify(title) ELSE slug_arg
        section_config == SectionPrefix \o slug \o JsonSuffix
    IN  /\ pc = "idle"
        /\ IF slug \in ReservedSlugs
           THEN status' = 1 /\ UNCHANGED sectionFiles
           ELSE IF section_config \in DOMAIN sectionFiles
           THEN status' = 1 /\ UNCHANGED sectionFiles
           ELSE /\ Docs < MaxDocs
                /\ status' = 0
                /\ sectionFiles' =
                       Put(sectionFiles, section_config,
                           [title |-> title, slug |-> slug,
                            creators |-> creators, min_rating |-> min_rating,
                            all_tags |-> tags_all, no_tags |-> tags_no,
                            comments |-> EmptyDict])
        /\ UNCHANGED <<store, blogDirs, tagsTable, imagesTable, assets, pc,
                       build_locals, prompts>>

CreateBlog(title, slug_arg) ==
    LET slug == IF slug_arg = <<>> THEN Slugify(title) ELSE slug_arg
        section_directory == BlogPrefix \o slug
    IN  /\ pc = "idle"
        /\ IF slug \in ReservedSlugs
           THEN status' = 1 /\ UNCHANGED blogDirs
           ELSE IF section_directory \in DOMAIN blogDirs
           THEN status' = 1 /\ UNCHANGED blogDirs
           ELSE /\ Docs < MaxDocs
                /\ status' = 0
                /\ blogDirs' =
                       Put(blogDirs, section_directory,
                           [config |-> [title |-> title, slug |-> slug,
                                        comments |-> EmptyDict],
                            posts |-> EmptyDict])
        /\ UNCHANGED <<store, sectionFiles, tagsTable, imagesTable, assets, pc,
                       build_locals, prompts>>

Post(blog, slug_arg, images, timestamp) ==
    LET blog_directory == BlogPrefix \o blog
        slug == IF slug_arg = <<>> THEN Str(timestamp) ELSE slug_arg
        post_config == Str(timestamp) \o JsonSuffix
    IN  /\ pc = "idle"
        /\ IF blog_directory \notin DOMAIN blogDirs
           THEN status' = 1 /\ UNCHANGED blogDirs
           ELSE IF \E i \in DOMAIN images : GetImage(store, images[i]) = {}
           THEN status' = 1 /\ UNCHANGED blogDirs
           ELSE /\ status' = 0
                /\ post_config \in DOMAIN blogDirs[blog_directory].posts
                   \/ Docs < MaxDocs
                /\ blogDirs' =
                       [blogDirs EXCEPT ![blog_directory].posts =
                           Put(@, post_config, [slug |-> slug, images |-> images])]
        /\ UNCHANGED <<store, sectionFiles, tagsTable, imagesTable, assets, pc,
                       build_locals, prompts>>

\* data["comments"][slug].append([email, comment])
AddTo(data, slug, email, comment) ==
    [data EXCEPT !.comments =
        Put(@, slug, Append(Get(@, slug, <<>>), <<email, comment>>))]

AddCommentSection(email, section, slug, comment) ==
    LET section_file == SectionPrefix \o section \o JsonSuffix
    IN  /\ pc = "idle"
        /\ IF section_file \notin DOMAIN sectionFiles
           THEN status' = 1 /\ UNCHANGED sectionFiles
           ELSE /\ Docs < MaxDocs
                /\ status' = 0
                /\ sectionFiles' =
                       [sectionFiles EXCEPT ![section_file] =
                           AddTo(@, slug, email, comment)]
        /\ UNCHANGED <<store, blogDirs, tagsTable, imagesTable, assets, pc,
                       build_locals, prompts>>

AddCommentBlog(email, blog, slug, comment) ==
    /\ pc = "idle"
    /\ IF blog \notin DOMAIN blogDirs
       THEN status' = 1 /\ UNCHANGED blogDirs
       ELSE /\ Docs < MaxDocs
            /\ status' = 0
            /\ blogDirs' =
                   [blogDirs EXCEPT ![blog].config =
                       AddTo(@, slug, email, comment)]
    /\ UNCHANGED <<store, sectionFiles, tagsTable, imagesTable, assets, pc,
                   build_locals, prompts>>


(***************************************************************************)
(* The build command.                                                      *)
(***************************************************************************)
\* a stable sort of <<key, value>> pairs, as sorted(..., reverse=...)
RECURSIVE InsertKeyed(_, _, _)
InsertKeyed(sorted, x, reverse) ==
    IF sorted = <<>> THEN <<x>>
    ELSE IF (IF reverse THEN x[1] > Head(sorted)[1] ELSE x[1] < Head(sorted)[1])
    THEN <<x>> \o sorted
    ELSE <<Head(sorted)>> \o InsertKeyed(Tail(sorted), x, reverse)

RECURSIVE SortKeyed(_, _)
SortKeyed(items, reverse) ==
    IF items = <<>> THEN <<>>
    ELSE InsertKeyed(SortKeyed(SubSeq(items, 1, Len(items) - 1), reverse),
                     items[Len(items)], reverse)

Values(items) == [i \in DOMAIN items |-> items[i][2]]

\* Page(relative, template, title, arguments, date, section)
Page(relative, template, arguments, date, section) ==
    [relative |-> relative, template |-> template, arguments |-> arguments,
     date |-> date, section |-> section]

Join(a, b) == a \o <<"/">> \o b

\* Page.render_feeds: the entries of atom.xml and rss.xml, in order
DateOf(page) == CHOOSE d \in page.date : TRUE

\* the entry of a page: its id (the post URL) and its published date
FeedEntry(page) == [id |-> page.relative, published |-> DateOf(page)]

\* feed entries in the order the pages were appended
FeedEntriesUnsorted(feed_pages) ==
    [i \in DOMAIN feed_pages |-> FeedEntry(feed_pages[i])]

FeedEntries(feed_pages) ==
    Values(SortKeyed([i \in DOMAIN feed_pages |->
                         <<DateOf(feed_pages[i]), FeedEntry(feed_pages[i])>>],
                     TRUE))

render_feeds(page, feed_pages) ==
    [directory |-> RSplitFirst(page.relative, "/"),
     atom |-> FeedEntries(feed_pages), rss |-> FeedEntries(feed_pages)]

\* the tag paths the images of the photo store can lead to
RECURSIVE Prefixes(_)
Prefixes(tag) == IF tag = <<>> THEN {} ELSE {tag} \cup Prefixes(Parent(tag))

AllPaths ==
    UNION {UNION {Prefixes(tag) : tag \in Range(store[id].tags)} :
              id \in DOMAIN store}

\* what the user will type at the prompts of one step
Replies == [AllPaths \ DOMAIN tagsTable -> ReplyLines]

\* process_image writes the database, the build directory and the caches
Commit(c) ==
    /\ tagsTable' = c.tagsTable
    /\ assets' = c.assets
    /\ all_images' = c.all_images
    /\ all_tags' = c.all_tags
    /\ tag_paths' = c.tag_paths
    /\ prompts' = c.prompts
    /\ copies' = c.copies

\* api.search_images(all_tags=..., no_tags=..., order=["creation_date"]):
\* the orders in which the matching images can be returned
Matching(photos, tags_all, tags_no) ==
    {id \in DOMAIN photos :
        /\ \A t \in Range(tags_all) : t \in Range(photos[id].tags)
        /\ \A t \in Range(tags_no) : t \notin Range(photos[id].tags)}

search_images(photos, tags_all, tags_no) ==
    LET ids == Matching(photos, tags_all, tags_no)
        n == Cardinality(ids)
    IN  {[i \in 1..n |-> photos[order[i]]] :
            order \in {o \in [1..n -> ids] :
                          /\ \A i, j \in 1..n : i # j => o[i] # o[j]
                          /\ \A i, j \in 1..n :
                                i < j => photos[o[i]].creation_date
                                            <= photos[o[j]].creation_date}}

\* build: the command starts; its local names are initialised
BuildStart(fresh) ==
    /\ pc = "idle"
    /\ pc' = "iterdir"
    /\ assets' = IF fresh THEN {} ELSE assets
    /\ todo' = DOMAIN blogDirs \cup DOMAIN sectionFiles
    /\ pages' = <<Page(Commenting \o HtmlSuffix, "commenting.html", EmptyDict, {}, FALSE)>>
    /\ UNCHANGED <<store, sectionFiles, blogDirs, tagsTable, imagesTable,
                   status, section_locals, image_locals, all_blog_pages,
                   sections, feeds, rendered, history>>

\* for path in directory.iterdir(), a blog directory
OpenBlog ==
    /\ pc = "iterdir"
    /\ \E p \in todo :
        /\ StartsWith(p, BlogPrefix)
        /\ path' = p
        /\ todo' = todo \ {p}
        /\ entries' = <<>>
        /\ previous' = <<>>
        /\ comments' = blogDirs[p].config.comments
        /\ queue' = SortedNames(DOMAIN blogDirs[p].posts \cup {ConfigJson})
    /\ pc' = "blog"
    /\ UNCHANGED <<persistent, status, dates, image_locals, page_locals, history>>

\* the images of one post, resolved in order
RECURSIVE ProcessPost(_, _, _)
ProcessPost(c, images, replies) ==
    IF images = <<>> THEN c
    ELSE LET c1 == process_image(c, ById(Head(images)), replies)
         IN IF c1.exit THEN c1
            ELSE ProcessPost(
                     [c1 EXCEPT !.post_images =
                         Append(@, CHOOSE d \in c1.image_data : TRUE)],
                     Tail(images), replies)

\* a threading that forgets the forward link of the previous entry
ThreadNoForward(list, entry) == Append(list, entry)

\* entries[-1]["forward"] = slug; entries.append(entry)
Thread(list, entry) ==
    Append([i \in DOMAIN list |->
               IF i = Len(list) THEN [list[i] EXCEPT !.forward = entry.slug]
               ELSE list[i]],
           entry)

\* one iteration of the loop over the sorted files of a blog directory
BlogPost ==
    /\ pc = "blog"
    /\ queue # <<>>
    /\ queue' = Tail(queue)
    /\ LET post_path == Head(queue)
       IN IF ~IsNumeric(Stem(post_path))
          THEN UNCHANGED <<pc, entries, previous, comments,
                           tagsTable, assets, image_locals, prompts, copies>>
          ELSE \E replies \in Replies :
                LET post_data == blogDirs[path].posts[post_path]
                    slug == post_data.slug \o HtmlSuffix
                    c == ProcessPost(Context, post_data.images, replies)
                    entry ==
                        [slug |-> slug,
                         comments |-> Get(comments, slug, <<>>),
                         images |-> c.post_images,
                         backward |-> previous,
                         forward |-> <<>>,
                         tags |-> UNION {Range(c.post_images[i].tags) :
                                            i \in DOMAIN c.post_images},
                         datetime |-> ParseInt(Stem(post_path)),
                         date |-> Strftime(ParseInt(Stem(post_path)))]
                IN  /\ Commit(c)
                    /\ comments' = Without(comments, slug)
                    /\ IF c.exit
                       THEN /\ pc' = "exit"
                            /\ UNCHANGED <<entries, previous>>
                       ELSE /\ entries' = Thread(entries, entry)
                            /\ previous' = slug
                            /\ UNCHANGED pc
    /\ UNCHANGED <<store, sectionFiles, blogDirs, imagesTable, status, todo,
                   path, dates, page_locals, warnings>>


\* the pages of a section's entries, its index page and its feeds
SectionPages(section_data, date_of(_)) ==
    [i \in DOMAIN entries |->
        Page(Join(section_data.slug, entries[i].slug), "post.html",
             entries[i], {date_of(entries[i])}, FALSE)]

IndexPage(section_data) ==
    Page(Join(section_data.slug, <<"i", "n", "d", "e", "x">> \o HtmlSuffix),
         "section.html",
         [slug |-> section_data.slug, title |-> section_data.title,
          comments |-> comments, entries |-> entries],
         {}, TRUE)

CloseSection(section_data, date_of(_)) ==
    /\ warnings' = IF DOMAIN comments # {} THEN Append(warnings, DOMAIN comments)
                   ELSE warnings
    /\ pages' = pages \o SectionPages(section_data, date_of)
                      \o <<IndexPage(section_data)>>
    /\ all_blog_pages' = all_blog_pages \o SectionPages(section_data, date_of)
    /\ feeds' = Append(feeds, render_feeds(IndexPage(section_data),
                                           SectionPages(section_data, date_of)))
    /\ sections' = Put(sections, section_data.title, section_data.slug)
    /\ pc' = "iterdir"

BlogDate(entry) == entry.datetime

\* the end of a blog: the warning, the pages, the feeds
BlogClose ==
    /\ pc = "blog"
    /\ queue = <<>>
    /\ CloseSection(blogDirs[path].config, BlogDate)
    /\ UNCHANGED <<persistent, status, todo, section_locals, image_locals,
                   rendered, prompts, copies>>

\* an opening of a section file that ignores min-rating
OpenSectionAnyRating ==
    /\ pc = "iterdir"
    /\ \E p \in todo :
        /\ StartsWith(p, SectionPrefix)
        /\ path' = p
        /\ todo' = todo \ {p}
        /\ pc' = "section"
        /\ entries' = <<>>
        /\ dates' = {}
        /\ previous' = <<>>
        /\ comments' = sectionFiles[p].comments
        /\ queue' \in search_images(store, sectionFiles[p].all_tags,
                                    sectionFiles[p].no_tags)
    /\ UNCHANGED <<persistent, status, image_locals, page_locals, history>>

\* for path in directory.iterdir(), a section file
OpenSection ==
    /\ pc = "iterdir"
    /\ \E p \in todo :
        /\ StartsWith(p, SectionPrefix)
        /\ path' = p
        /\ todo' = todo \ {p}
        /\ IF sectionFiles[p].min_rating # {}
           THEN /\ pc' = "NotImplementedError"
                /\ UNCHANGED <<queue, entries, previous, comments, dates>>
           ELSE /\ pc' = "section"
                /\ entries' = <<>>
                /\ dates' = {}
                /\ previous' = <<>>
                /\ comments' = sectionFiles[p].comments
                /\ queue' \in search_images(store, sectionFiles[p].all_tags,
                                            sectionFiles[p].no_tags)
    /\ UNCHANGED <<persistent, status, image_locals, page_locals, history>>

\* a slug that never appends the image id
AutoSlugNoId(date, seen, id) == date \o HtmlSuffix

\* the slug of an auto section's entry
AutoSlug(date, seen, id) ==
    IF date \in seen THEN date \o <<"-">> \o Str(id) \o HtmlSuffix
    ELSE date \o HtmlSuffix

\* one iteration of the loop over the images of an auto section
SectionImage ==
    /\ pc = "section"
    /\ queue # <<>>
    /\ queue' = Tail(queue)
    /\ LET image == Head(queue)
       IN IF ~image.full_path
          THEN UNCHANGED <<entries, previous, comments, dates, tagsTable,
                           assets, image_locals, prompts, copies>>
          ELSE \E replies \in Replies :
                LET c == process_image(Context, ByImage(image), replies)
                    image_data == CHOOSE d \in c.image_data : TRUE
                    date == image_data.date
                    slug == AutoSlug(date, dates, image_data.id)
                    key == RSplitFirst(slug, ".")
                    entry ==
                        [slug |-> slug,
                         date |-> date,
                         images |-> <<image_data>>,
                         tags |-> image_data.tags,
                         backward |-> previous,
                         forward |-> <<>>,
                         comments |-> Get(comments, key, <<>>)]
                IN  /\ Commit(c)
                    /\ dates' = dates \cup {date}
                    /\ entries' = Thread(entries, entry)
                    /\ comments' = Without(comments, key)
                    /\ previous' = slug
    /\ UNCHANGED <<store, sectionFiles, blogDirs, imagesTable, status, pc,
                   todo, path, page_locals, warnings>>

SectionDate(entry) == entry.images[1].datetime

\* the end of an auto section: the warning, the pages, the feeds
SectionClose ==
    /\ pc = "section"
    /\ queue = <<>>
    /\ CloseSection(sectionFiles[path], SectionDate)
    /\ UNCHANGED <<persistent, status, todo, section_locals, image_locals,
                   rendered, prompts, copies>>

\* after the loop: the tag pages and the tag tree, the image pages, the
\* home page and its feeds
TagPages ==
    [i \in DOMAIN all_tags |->
        Page(<<"t", "a", "g", "s", "/">> \o tag_paths[all_tags[i][1]] \o HtmlSuffix,
             "section.html",
             [entries |->
                 Values(SortKeyed(
                     [j \in DOMAIN all_tags[i][2] |->
                         <<Lookup(all_images, all_tags[i][2][j]).datetime,
                           all_tags[i][2][j]>>],
                     FALSE))],
             {}, FALSE)]

\* the nodes of the tag tree: every prefix of a tag, with its slug
RECURSIVE JoinParts(_)
JoinParts(parts) ==
    IF Len(parts) = 1 THEN parts[1]
    ELSE Join(JoinParts(SubSeq(parts, 1, Len(parts) - 1)), parts[Len(parts)])

TagTree ==
    LET nodes == UNION {{JoinParts(SubSeq(Split(tag, "/"), 1, k)) :
                            k \in 1..Len(Split(tag, "/"))} :
                        tag \in Keys(all_tags)}
    IN  [full \in nodes |-> tag_paths[full]]

ImagePages ==
    [i \in DOMAIN all_images |->
        Page(<<"i", "m", "a", "g", "e", "s", "/">> \o Str(all_images[i][2].id)
                 \o HtmlSuffix,
             "post.html", [images |-> <<all_images[i][2]>>], {}, FALSE)]

IndexHtml == <<"i", "n", "d", "e", "x">> \o HtmlSuffix

BuildTail ==
    /\ pc = "iterdir"
    /\ todo = {}
    /\ pages' = pages \o TagPages
                   \o <<Page(<<"t", "a", "g", "s", "/">> \o IndexHtml, "tags.html",
                             [tags |-> TagTree], {}, TRUE)>>
                   \o ImagePages
                   \o <<Page(IndexHtml, "home.html", [sections |-> sections],
                             {}, FALSE)>>
    /\ feeds' = Append(feeds,
                       render_feeds(Page(IndexHtml, "home.html",
                                         [sections |-> sections], {}, FALSE),
                                    all_blog_pages))
    /\ pc' = "render"
    /\ UNCHANGED <<persistent, status, todo, section_locals, image_locals,
                   all_blog_pages, sections, rendered, history>>

\* for page in pages: page.render(...)
\* Page.render of the next page: the page is written; or writing it or
\* evaluating the template fails, which is caught and printed; or the
\* template lookup or the mkdir fails, which nothing catches
RenderOutcomes == {"written", "caught", "raised"}

RenderPage(outcome) ==
    /\ pc = "render"
    /\ Len(rendered) < Len(pages)
    /\ IF outcome = "raised"
       THEN pc' = "raised" /\ UNCHANGED rendered
       ELSE /\ rendered' = Append(rendered, pages[Len(rendered) + 1].relative)
            /\ UNCHANGED pc
    /\ UNCHANGED <<persistent, status, todo, section_locals, image_locals,
                   pages, all_blog_pages, sections, feeds, history>>

\* the build command ends: after the last page, at exit(1), or at the
\* exception; its local names are gone
Finished ==
    \/ pc = "render" /\ Len(rendered) = Len(pages)
    \/ pc \in {"exit", "NotImplementedError", "raised"}

EmptyLocals ==
    /\ todo = {}
    /\ path = <<>>
    /\ queue = <<>>
    /\ entries = <<>>
    /\ previous = <<>>
    /\ comments = EmptyDict
    /\ dates = {}
    /\ all_images = <<>>
    /\ all_tags = <<>>
    /\ tag_paths = EmptyDict
    /\ pages = <<>>
    /\ all_blog_pages = <<>>
    /\ sections = EmptyDict
    /\ feeds = <<>>
    /\ rendered = <<>>
    /\ copies = EmptyDict
    /\ warnings = <<>>

ClearLocals ==
    /\ todo' = {}
    /\ path' = <<>>
    /\ queue' = <<>>
    /\ entries' = <<>>
    /\ previous' = <<>>
    /\ comments' = EmptyDict
    /\ dates' = {}
    /\ all_images' = <<>>
    /\ all_tags' = <<>>
    /\ tag_paths' = EmptyDict
    /\ pages' = <<>>
    /\ all_blog_pages' = <<>>
    /\ sections' = EmptyDict
    /\ feeds' = <<>>
    /\ rendered' = <<>>
    /\ copies' = EmptyDict
    /\ warnings' = <<>>

\* an end of the command that loses the decisions of an aborted build
BuildEndRollsBack ==
    /\ Finished
    /\ pc' = "idle"
    /\ status' = IF pc = "render" THEN 0 ELSE 1
    /\ ClearLocals
    /\ tagsTable' = IF pc = "render" THEN tagsTable ELSE EmptyDict
    /\ UNCHANGED <<store, sectionFiles, blogDirs, imagesTable, assets, prompts>>

BuildEnd ==
    /\ Finished
    /\ pc' = "idle"
    /\ status' = IF pc = "render" THEN 0 ELSE 1
    /\ ClearLocals
    /\ UNCHANGED <<persistent, prompts>>


(***************************************************************************)
(* The site.  The photo store holds four images: the date of image 2 is    *)
(* set in the database, image 3 has an EXIF date, image 4 has no file.     *)
(* The site was built before: the tag of image 1 is decided (the path      *)
(* A/b is denied, its parent allowed) and the image files are copied.      *)
(* The configuration is empty, and the commands fill it.                   *)
(***************************************************************************)
Image(id, full_path, creation_date, exif, creator, tags) ==
    [id |-> id, full_path |-> full_path, creation_date |-> creation_date,
     exif |-> exif, creator |-> creator, tags |-> tags]

Library ==
    (1 :> Image(1, TRUE, 0, EmptyDict, "alice", <<TagAB>>))
    @@ (2 :> Image(2, TRUE, 1, EmptyDict, "bob", <<>>))
    @@ (3 :> Image(3, TRUE, 2, [DateTimeOriginal |-> ExifStr(1)], "alice", <<>>))
    @@ (4 :> Image(4, FALSE, 3, EmptyDict, "alice", <<>>))

Init ==
    /\ store = Library
    /\ sectionFiles = EmptyDict
    /\ blogDirs = EmptyDict
    /\ tagsTable = (TagAB :> FALSE) @@ (Parent(TagAB) :> TRUE)
    /\ imagesTable = (2 :> DateStr(1))
    /\ assets = {1, 2, 3}
    /\ status = 0
    /\ pc = "idle"
    /\ prompts = (TagAB :> 1) @@ (Parent(TagAB) :> 1)
    /\ EmptyLocals

Commands ==
    \/ \E title \in TitleArgs, slug \in SlugArgs, f \in FilterArgs :
          CreateAuto(title, slug, f.creators, f.min_rating, f.all_tags, f.no_tags)
    \/ \E title \in TitleArgs, slug \in SlugArgs : CreateBlog(title, slug)
    \/ \E blog \in BlogArgs, slug \in PostSlugArgs, images \in ImageArgs,
          timestamp \in StampArgs : Post(blog, slug, images, timestamp)
    \/ \E email \in Users, section \in BlogArgs, slug \in CommentSlugArgs :
          AddCommentSection(email, section, slug, "hi")
    \/ \E email \in Users, blog \in {BlogPrefix \o b : b \in BlogArgs},
          slug \in CommentSlugArgs :
          AddCommentBlog(email, blog, slug, "hi")

Next ==
    \/ Commands
    \/ BuildStart(FALSE)
    \/ OpenBlog
    \/ BlogPost
    \/ BlogClose
    \/ OpenSection
    \/ SectionImage
    \/ SectionClose
    \/ BuildTail
    \/ \E outcome \in RenderOutcomes : RenderPage(outcome)
    \/ BuildEnd

Spec == Init /\ [][Next]_vars


(***************************************************************************)
(* Repeated builds of one site, for the tag authorization walk.  The site  *)
(* has a blog with one post and an auto section without filters; the       *)
(* images carry any raw tags, nothing is decided and nothing is copied.    *)
(***************************************************************************)
\* an image carries at most MaxTags raw tags
MaxTags == 2

TagD == <<"d">>

\* the tags of an image: distinct tags, in any order
TagLists(RawTags) ==
    {tags \in UNION {[1..n -> RawTags] : n \in 0..MaxTags} :
        \A i, j \in DOMAIN tags : i # j => tags[i] # tags[j]}

ABlog == BlogPrefix \o <<"a", "-", "b">>

ASection == SectionPrefix \o <<"a", "-", "b">> \o JsonSuffix

SectionData(title, slug, filter, pending) ==
    [title |-> title, slug |-> slug, creators |-> filter.creators,
     min_rating |-> filter.min_rating, all_tags |-> filter.all_tags,
     no_tags |-> filter.no_tags, comments |-> pending]

InitBuilds ==
    /\ \E tags1 \in TagLists({TagAB, TagABC}),
          tags2 \in TagLists({TagAB, TagD}) :
          store = (1 :> Image(1, TRUE, 0, EmptyDict, "alice", tags1))
                  @@ (2 :> Image(2, TRUE, 1, EmptyDict, "bob", tags2))
                  @@ (4 :> Image(4, FALSE, 3, EmptyDict, "alice", <<>>))
    /\ \E min_rating \in {{}, {3}} :
          sectionFiles =
              (ASection :> SectionData(<<"A", " ", "b">>, <<"a", "-", "b">>,
                                       Filter(<<>>, min_rating, <<>>, <<>>),
                                       EmptyDict))
    /\ \E images \in {<<2, 1>>, <<2, 4>>} :
          blogDirs =
              (ABlog :> [config |-> [title |-> <<"A", " ", "b">>,
                                     slug |-> <<"a", "-", "b">>,
                                     comments |-> EmptyDict],
                         posts |-> (Str(9) \o JsonSuffix)
                                       :> [slug |-> Str(9), images |-> images]])
    /\ tagsTable = EmptyDict
    /\ imagesTable = EmptyDict
    /\ assets = {}
    /\ status = 0
    /\ pc = "idle"
    /\ prompts = EmptyDict
    /\ EmptyLocals

NextBuilds ==
    \/ \E fresh \in BOOLEAN : BuildStart(fresh)
    \/ OpenBlog
    \/ BlogPost
    \/ BlogClose
    \/ OpenSection
    \/ SectionImage
    \/ SectionClose
    \/ BuildTail
    \/ \E outcome \in RenderOutcomes : RenderPage(outcome)
    \/ BuildEnd

SpecBuilds == InitBuilds /\ [][NextBuilds]_vars

(***************************************************************************)
(* The build of one auto section without filters over three images with    *)
(* any creation dates, EXIF dates and dates set in the database.           *)
(***************************************************************************)
\* the images are created at the ticks 0 .. MaxTick
MaxTick == 2

ExifArgs == {EmptyDict, [DateTimeOriginal |-> ExifStr(1)]}

InitDates ==
    /\ \E created \in [1..3 -> 0..MaxTick], exif \in [1..3 -> ExifArgs] :
          store = [id \in 1..3 |->
                      Image(id, TRUE, created[id], exif[id], "alice", <<>>)]
    /\ sectionFiles =
          (ASection :> SectionData(<<"A", " ", "b">>, <<"a", "-", "b">>,
                                   Filter(<<>>, {}, <<>>, <<>>), EmptyDict))
    /\ blogDirs = EmptyDict
    /\ tagsTable = EmptyDict
    /\ imagesTable \in {EmptyDict, 1 :> DateStr(2)}
    /\ assets = {}
    /\ status = 0
    /\ pc = "idle"
    /\ prompts = EmptyDict
    /\ EmptyLocals

NextDates ==
    \/ \E fresh \in BOOLEAN : BuildStart(fresh)
    \/ OpenSection
    \/ SectionImage
    \/ SectionClose
    \/ BuildTail
    \/ \E outcome \in RenderOutcomes : RenderPage(outcome)
    \/ BuildEnd

SpecDates == InitDates /\ [][NextDates]_vars


(***************************************************************************)
(* The properties.                                                         *)
(***************************************************************************)
\* the entries of the section under assembly and of every assembled section
IndexPages == {i \in DOMAIN pages : pages[i].section /\ pages[i].template = "section.html"}

AssembledEntries == {entries} \cup {pages[i].arguments.entries : i \in IndexPages}

IsBlog(e) == e # <<>> /\ "datetime" \in DOMAIN e[1]

IsAuto(e) == e # <<>> /\ "datetime" \notin DOMAIN e[1]

Chain(e) ==
    e # <<>> =>
        /\ e[1].backward = <<>>
        /\ e[Len(e)].forward = <<>>
        /\ \A i \in 1..(Len(e) - 1) :
              e[i].forward = e[i + 1].slug /\ e[i + 1].backward = e[i].slug

\* C1: in every section, blog or auto, the entries form one doubly linked
\* chain: the first entry has no backward link, the last no forward link,
\* and consecutive entries link to each other's slugs.
C1_LinkChain == \A e \in AssembledEntries : Chain(e)

C1_Witness ==
    \E i, j \in IndexPages :
        /\ IsBlog(pages[i].arguments.entries)
        /\ IsAuto(pages[j].arguments.entries)
        /\ Len(pages[i].arguments.entries) >= 2
        /\ Len(pages[j].arguments.entries) >= 2

\* the post date of an entry comes before, or is, that of another
DateOrder(a, b) ==
    IF "datetime" \in DOMAIN a THEN a.datetime <= b.datetime
    ELSE a.date = b.date \/ LexLess(a.date, b.date)

\* C2: in every section the chain visits the posts in ascending order of
\* their post date: the integer value of the timestamp filename for a
\* blog, the effective date for an auto section.
C2_ChronologicalChain ==
    \A e \in AssembledEntries :
        \A i, j \in DOMAIN e : i < j => DateOrder(e[i], e[j])

\* C3: no two posts of a section share a slug.
C3_UniqueSlugs ==
    \A e \in AssembledEntries :
        \A i, j \in DOMAIN e : i # j => e[i].slug # e[j].slug

\* C4: in an auto section the first image of an effective date gets the
\* slug "<date>", every later image of that date "<date>-<image id>", so
\* two images of one date get distinct slugs.
C4_AutoSlugs ==
    \A e \in AssembledEntries :
        IsAuto(e) =>
            \A i \in DOMAIN e :
                /\ e[i].slug =
                      IF \E j \in 1..(i - 1) : e[j].date = e[i].date
                      THEN e[i].date \o <<"-">> \o Str(e[i].images[1].id)
                               \o HtmlSuffix
                      ELSE e[i].date \o HtmlSuffix
                /\ \A j \in DOMAIN e :
                      j # i /\ e[j].date = e[i].date => e[j].slug # e[i].slug

C4_Witness ==
    \E e \in AssembledEntries :
        /\ IsAuto(e)
        /\ Len(e) = 3
        /\ e[1].date = e[2].date
        /\ e[2].date = e[3].date

\* C5: across the builds that share the tags table, a tag path is prompted
\* at most once: only when the table has no row for it, and the answer is
\* in the table when the step ends; when every path has a row, no step
\* prompts.
C5_PromptOnce ==
    /\ [](\A t \in DOMAIN prompts : prompts[t] <= 1)
    /\ [][\A t \in DOMAIN prompts' :
             Get(prompts', t, 0) > Get(prompts, t, 0)
                 => t \notin DOMAIN tagsTable /\ t \in DOMAIN tagsTable']_vars
    /\ [][AllPaths \subseteq DOMAIN tagsTable => prompts' = prompts]_vars

\* a build that copied nothing and prompted for nothing, after a build
\* that prompted, has rendered its last page
C5_Witness ==
    /\ pc = "render"
    /\ Len(rendered) = Len(pages)
    /\ copies = EmptyDict
    /\ Keys(all_tags) # {}
    /\ DOMAIN tagsTable = AllPaths
    /\ \A t \in AllPaths : prompts[t] = 1

Allowed(tag) == tag \in DOMAIN tagsTable /\ tagsTable[tag]

Denied(tag) == tag \in DOMAIN tagsTable /\ ~tagsTable[tag]

HasAllowed(tag) == \E p \in Prefixes(tag) : Allowed(p)

LongestAllowed(tag) ==
    CHOOSE p \in Prefixes(tag) :
        Allowed(p) /\ \A q \in Prefixes(tag) : Allowed(q) => Len(q) <= Len(p)

Registered(id, tag) ==
    tag \in Keys(all_tags) /\ id \in Range(Lookup(all_tags, tag))

\* C6: an image with a raw tag whose full path is denied and one of whose
\* ancestors is allowed is registered under the nearest allowed ancestor
\* and every ancestor above it, and never under the denied full path.
C6_DeniedLeaf ==
    \A id \in Keys(all_images) :
        \A tag \in Range(store[id].tags) :
            Denied(tag) /\ HasAllowed(tag) =>
                /\ \A q \in Prefixes(LongestAllowed(tag)) : Registered(id, q)
                /\ ~Registered(id, tag)

\* the tags of an image, from its raw tags and the decisions
RECURSIVE ExpectedTags(_)
ExpectedTags(raw) ==
    IF raw = <<>> THEN <<>>
    ELSE (IF HasAllowed(Head(raw))
          THEN <<Split(LongestAllowed(Head(raw)), "/")>> ELSE <<>>)
         \o ExpectedTags(Tail(raw))

\* C7: the tags of an image hold, for each raw tag, exactly its longest
\* allowed prefix; a raw tag all of whose prefixes are denied adds nothing
\* to the tags of the image and nothing to the tag index.
C7_LongestAllowedPrefix ==
    /\ \A id \in Keys(all_images) :
          Lookup(all_images, id).tags = ExpectedTags(store[id].tags)
    /\ \A q \in Keys(all_tags) :
          \A id \in Range(Lookup(all_tags, q)) :
              \E tag \in Range(store[id].tags) :
                  HasAllowed(tag) /\ q \in Prefixes(LongestAllowed(tag))

C7_Witness ==
    /\ \E id \in Keys(all_images) :
          \E tag \in Range(store[id].tags) :
              /\ Denied(tag)
              /\ HasAllowed(tag)
              /\ Lookup(all_images, id).tags # <<>>
    /\ \E id \in Keys(all_images) :
          \E tag \in Range(store[id].tags) :
              /\ ~HasAllowed(tag)
              /\ Lookup(all_images, id).tags = <<>>

\* the slug of an entry without its ".html"
Bare(slug) == SubSeq(slug, 1, Len(slug) - Len(HtmlSuffix))

Merged(pending) ==
    /\ \A i \in DOMAIN entries :
          entries[i].comments = Get(pending, Bare(entries[i].slug), <<>>)
    /\ \A k \in DOMAIN comments :
          \A i \in DOMAIN entries : k # Bare(entries[i].slug)

\* C8: when a section is assembled, the comments stored in its
\* configuration under a post's slug are attached to that post's entry,
\* and the keys left in the map match no post of the section.
C8_CommentsMerged ==
    /\ pc = "blog" /\ queue = <<>> => Merged(blogDirs[path].config.comments)
    /\ pc = "section" /\ queue = <<>> => Merged(sectionFiles[path].comments)

\* C9: a build of a site with an auto section whose min-rating is set
\* assembles no post for that section and renders no page; it stops at
\* that section, and the only step after that is the end of the command.
C9_MinRatingAborts ==
    /\ [](pc = "section" => sectionFiles[path].min_rating = {})
    /\ []((\E p \in DOMAIN sectionFiles : sectionFiles[p].min_rating # {})
             => rendered = <<>> /\ pc # "render")
    /\ [][pc = "iterdir" /\ todo' # todo /\ path' \in DOMAIN sectionFiles
             /\ sectionFiles[path'].min_rating # {}
             => pc' = "NotImplementedError" /\ UNCHANGED <<entries, pages, feeds>>]_vars
    /\ [][pc = "NotImplementedError"
             => pc' = "idle" /\ status' = 1 /\ rendered' = <<>>]_vars

\* the build stopped at a min-rating section with a blog still to process
C9_Witness ==
    /\ pc = "NotImplementedError"
    /\ \E p \in todo : StartsWith(p, BlogPrefix)

\* C10: an auto section with a creators filter has posts only for images
\* whose creator is one of the configured creators.
C10_CreatorsFilter ==
    pc = "section" /\ sectionFiles[path].creators # <<>> =>
        \A i \in DOMAIN entries :
            store[entries[i].images[1].id].creator
                \in Range(sectionFiles[path].creators)

\* C11: a failure of the rendering of one page does not end the build:
\* whenever a page is still to be rendered, the step that renders it leaves
\* the build in its render loop with that page behind it.
C11_RenderContained ==
    [][pc = "render" /\ Len(rendered) < Len(pages)
          => pc' = "render" /\ Len(rendered') = Len(rendered) + 1]_vars

\* a build that stopped at exit(1) or at the NotImplementedError
Aborted == pc \in {"exit", "NotImplementedError"}

\* C12: when a build aborts, the tag decisions answered before the abort
\* are in the tags table; no step, the abort and the end of the command
\* included, removes or changes a row; and a path that has a row is not
\* prompted again by any later build.
C12_DecisionsSurviveAbort ==
    /\ [][Aborted' => \A t \in DOMAIN prompts' :
             Get(prompts', t, 0) > Get(prompts, t, 0)
                 => t \in DOMAIN tagsTable']_vars
    /\ [][\A t \in DOMAIN tagsTable :
             /\ t \in DOMAIN tagsTable'
             /\ tagsTable'[t] = tagsTable[t]
             /\ Get(prompts', t, 0) = Get(prompts, t, 0)]_vars

\* after a build that ended with status 1, a build that copied nothing
\* walked the tags of an image on stored decisions alone, and aborted too
C12_Witness ==
    /\ status = 1
    /\ Aborted
    /\ Keys(all_tags) # {}
    /\ copies = EmptyDict
    /\ \A t \in DOMAIN tagsTable : Get(prompts, t, 0) = 1

\* how many times an image is listed under a tag
Listed(id, tag) ==
    Cardinality({i \in DOMAIN Lookup(all_tags, tag) :
                    Lookup(all_tags, tag)[i] = id})

\* C13: resolving an image that is in the cache returns the cached record
\* and changes nothing; so in one build an image is copied at most once,
\* is stored in the cache once, and its tags are walked once (it is listed
\* under a tag at most once for each of its raw tags), and a section's
\* step on a cached image leaves the database, the image files, the cache,
\* the tag index and the slug table as they are.
C13_Memoized ==
    /\ [](\A id \in Keys(all_images) : \A replies \in Replies :
             process_image(Context, ById(id), replies)
                 = [Context EXCEPT !.image_data = {Lookup(all_images, id)}])
    /\ [](\A id \in DOMAIN copies : copies[id] <= 1)
    /\ [](\A i, j \in DOMAIN all_images :
             i # j => all_images[i][1] # all_images[j][1])
    /\ [](\A tag \in Keys(all_tags) : \A id \in Keys(all_images) :
             Listed(id, tag) <= Len(store[id].tags))
    /\ [][pc = "section" /\ queue # <<>>
             /\ Head(queue).id \in Keys(all_images)
             => UNCHANGED <<tagsTable, assets, all_images, all_tags,
                            tag_paths, prompts, copies>>]_vars

\* an image of a blog post, with an allowed tag and copied in this build,
\* has been met again by the auto section
C13_Witness ==
    /\ pc = "section"
    /\ Len(entries) = 2
    /\ all_blog_pages # <<>>
    /\ \E id \in DOMAIN copies :
          /\ Lookup(all_images, id).tags # <<>>
          /\ \E i \in DOMAIN entries : entries[i].images[1].id = id

Descending(feed_entries) ==
    \A i, j \in DOMAIN feed_entries :
        i < j => feed_entries[i].published >= feed_entries[j].published

\* C14: the entries of every feed, of a section or of the site, are in
\* descending order of their published dates, in atom.xml and in rss.xml,
\* and they are the entries of the pages the feed was given.
C14_FeedsDescending ==
    \A i \in DOMAIN feeds :
        /\ Descending(feeds[i].atom)
        /\ Descending(feeds[i].rss)
        /\ pc = "render" /\ i = Len(feeds) =>
               /\ Len(feeds[i].atom) = Len(all_blog_pages)
               /\ \A k \in DOMAIN all_blog_pages :
                      \E n \in DOMAIN feeds[i].atom :
                          feeds[i].atom[n] = FeedEntry(all_blog_pages[k])

\* the site's feed was given pages in an order that is not descending
C14_Witness ==
    /\ pc = "render"
    /\ feeds # <<>>
    /\ Len(feeds[Len(feeds)].rss) >= 3
    /\ \E i, j \in DOMAIN all_blog_pages :
          i < j /\ DateOf(all_blog_pages[i]) < DateOf(all_blog_pages[j])

\* C15: a tag path the tags table denies is never a key of the tag index
\* or of the slug table, so it gets no tag page and no node of the tag
\* tree.
C15_DeniedNotIndexed ==
    \A tag \in Keys(all_tags) \cup DOMAIN tag_paths : ~Denied(tag)

\* the slugs of the configured sections: one for each section file and
\* one for each blog directory
SectionSlugs ==
    [p \in DOMAIN sectionFiles |-> sectionFiles[p].slug]
        @@ [d \in DOMAIN blogDirs |-> blogDirs[d].config.slug]

\* C16: no two configured sections, of either kind, have the same slug,
\* none has a reserved slug, and a create command that ends with status 1
\* leaves the configuration as it was.
C16_SectionSlugsUnique ==
    /\ [](\A a, b \in DOMAIN SectionSlugs :
             a # b => SectionSlugs[a] # SectionSlugs[b])
    /\ [](\A a \in DOMAIN SectionSlugs : SectionSlugs[a] \notin ReservedSlugs)
    /\ [][pc = "idle" /\ pc' = "idle" /\ status' = 1
             => UNCHANGED <<sectionFiles, blogDirs>>]_vars

\* the paths the tag tree looks up in the slug table for a tag
TreeNodes(tag) ==
    {JoinParts(SubSeq(Split(tag, "/"), 1, k)) : k \in 1..Len(Split(tag, "/"))}

====
